---- MODULE Spec2Model ----
(***************************************************************************)
(* Route tree (Layer), flattening (Layer.routes), documentation merge      *)
(* (joinObject / joinDocs), path join (joinPath) and the execute-once      *)
(* middleware wrapper (createDynamicMiddleware) of @ismael1361/router.     *)
(***************************************************************************)
EXTENDS Integers, Sequences, FiniteSets, TLC

(***************************************************************************)
(* Bounds of the model.                                                    *)
(***************************************************************************)
MaxNodes == 3
MaxEntries == 4
MaxByNodes == 5
MaxByEntries == 5
MaxDocNodes == 2
MaxDocEntries == 3
MaxChain == 3
MaxRequests == 2
MaxListLen == 2
MaxSegLen == 4
MaxSegs == 2
MaxFailChain == 2
MaxTwoChain == 2
MaxInFlight == 2
MaxComps == 3
MaxCompChain == 4

(***************************************************************************)
(* Documentation values.  A JavaScript value is a record [t, s, c]: t is   *)
(* the kind, s the text of a scalar or the identity of an opaque instance, *)
(* c the children: the elements of a list, or, for a plain record, one     *)
(* slot per key of KeyNames (Absent when the record has no such key).      *)
(* Strings of the model are one character long, so that spreading a string *)
(* yields the string itself and its only own key is "0".                   *)
(***************************************************************************)
KeyNames == <<"summary", "tags", "x", "0", "1", "2", "3">>
NKeys == Len(KeyNames)
NNamed == 3
IndexKey(j) == NNamed + j + 1

Absent == [t |-> "absent", s |-> "", c |-> <<>>]
Undefined == [t |-> "undefined", s |-> "", c |-> <<>>]
Null == [t |-> "null", s |-> "", c |-> <<>>]
Raise == [t |-> "raise", s |-> "TypeError", c |-> <<>>]
Num(s) == [t |-> "number", s |-> s, c |-> <<>>]
Str(s) == [t |-> "string", s |-> s, c |-> <<>>]
Opaque(s) == [t |-> "opaque", s |-> s, c |-> <<>>]
List(l) == [t |-> "list", s |-> "", c |-> l]
EmptyRec == [t |-> "record", s |-> "", c |-> [k \in 1..NKeys |-> Absent]]
Rec1(k, v) == [EmptyRec EXCEPT !.c[k] = v]
Rec2(k1, v1, k2, v2) == [EmptyRec EXCEPT !.c[k1] = v1, !.c[k2] = v2]

KSummary == 1
KTags == 2
KX == 3

\* value.constructor !== Object for a non-null object (index.ts isConstructedObject);
\* used by joinObject only together with !Array.isArray
isConstructedObject(v) == v.t \in {"opaque", "list"}

IsArray(v) == v.t = "list"

\* Object.keys(o) / for (key in o): the own enumerable keys of a value
OwnKeys(o) ==
  CASE o.t = "record" -> {k \in 1..NKeys : o.c[k].t # "absent"}
    [] o.t = "list" -> {IndexKey(j) : j \in 0..(Len(o.c) - 1)}
    [] o.t = "string" -> {IndexKey(0)}
    [] OTHER -> {}

\* o[key]
GetKey(o, k) ==
  CASE o.t = "record" -> o.c[k]
    [] o.t = "list" -> o.c[k - NNamed]
    [] o.t = "string" -> o
    [] OTHER -> Undefined

\* the filter with an index test that also rejects position 0
DedupeListSkipFirst(l) ==
  LET keep(i) == i > 1 /\ \A j \in 1..(i - 1) : l[j] # l[i]
      F[i \in 0..Len(l)] ==
        IF i = 0 THEN <<>>
        ELSE IF keep(i) THEN Append(F[i - 1], l[i]) ELSE F[i - 1]
  IN F[Len(l)]
\* the filter with its test inverted: only repeated occurrences are kept
DedupeListBug(l) ==
  LET keep(i) == \E j \in 1..(i - 1) : l[j] = l[i]
      F[i \in 0..Len(l)] ==
        IF i = 0 THEN <<>>
        ELSE IF keep(i) THEN Append(F[i - 1], l[i]) ELSE F[i - 1]
  IN F[Len(l)]
\* l.filter((v, i, l) => i === l.findIndex((v2) => deepEqual(v2, v)))
DedupeList(l) ==
  LET keep(i) == \A j \in 1..(i - 1) : l[j] # l[i]
      F[i \in 0..Len(l)] ==
        IF i = 0 THEN <<>>
        ELSE IF keep(i) THEN Append(F[i - 1], l[i]) ELSE F[i - 1]
  IN F[Len(l)]

\* [...(cur ?? [])]: the spread of the value already stored at the key
IsNullish(v) == v.t \in {"absent", "undefined", "null"}
IsIterable(v) == IsNullish(v) \/ v.t \in {"list", "string"}
\* a spread that forgets the value already stored
SpreadOfBug(v) == <<>>
SpreadOf(v) ==
  CASE IsNullish(v) -> <<>>
    [] v.t = "list" -> v.c
    [] v.t = "string" -> <<v>>
    [] OTHER -> <<>>

\* the keys of a set as a sequence (the iteration order does not matter:
\* each key of joinObject's loop writes result[key] only)
RECURSIVE SetToSeq(_)
SetToSeq(S) ==
  IF S = {} THEN <<>>
  ELSE LET m == CHOOSE x \in S : \A y \in S : x <= y
       IN <<m>> \o SetToSeq(S \ {m})

RECURSIVE JoinObject(_, _)
\* joinObject(obj, ...objs)
JoinObject(obj, objs) ==
  IF obj.t = "raise" THEN Raise
  ELSE IF ~IsArray(obj) /\ isConstructedObject(obj) THEN obj
  ELSE
    LET all == SelectSeq(<<obj>> \o objs, LAMBDA o : OwnKeys(o) # {})
        \* one iteration of the for-in loop
        KeyStep(result, o, k) ==
          LET v == GetKey(o, k)
              cur == result.c[k]
          IN IF result.t = "raise" THEN Raise
             ELSE IF v.t = "undefined" THEN result
             ELSE IF v.t = "null" \/ (~IsArray(v) /\ isConstructedObject(v))
               THEN [result EXCEPT !.c[k] = v]
             ELSE IF IsArray(v) THEN
               IF IsIterable(cur)
               THEN [result EXCEPT !.c[k] = List(DedupeList(SpreadOf(cur) \o v.c))]
               ELSE Raise
             ELSE IF v.t = "record" THEN
               LET sub == JoinObject(IF IsNullish(cur) THEN EmptyRec ELSE cur, <<v>>)
               IN IF sub.t = "raise" THEN Raise ELSE [result EXCEPT !.c[k] = sub]
             ELSE [result EXCEPT !.c[k] = v]
        ObjStep(result, o) ==
          LET ks == SetToSeq(OwnKeys(o))
              G[i \in 0..Len(ks)] ==
                IF i = 0 THEN result ELSE KeyStep(G[i - 1], o, ks[i])
          IN G[Len(ks)]
        F[i \in 0..Len(all)] ==
          IF i = 0 THEN EmptyRec ELSE ObjStep(F[i - 1], all[i])
    IN F[Len(all)]

\* joinDocs(...docs)
JoinDocs(docs) ==
  LET ds == SelectSeq(docs, LAMBDA d : OwnKeys(d) # {})
      F[i \in 0..Len(ds)] ==
        IF i = 0 THEN EmptyRec ELSE JoinObject(F[i - 1], <<ds[i]>>)
  IN F[Len(ds)]


(***************************************************************************)
(* Paths are sequences of one-character strings.                           *)
(***************************************************************************)
Sep == "/"

\* p.replace(/(^\/+)|(\/+$)/gi, "")
RECURSIVE StripLeading(_)
StripLeading(p) ==
  IF p # <<>> /\ Head(p) = Sep THEN StripLeading(Tail(p)) ELSE p
RECURSIVE StripTrailing(_)
StripTrailing(p) ==
  IF p # <<>> /\ p[Len(p)] = Sep THEN StripTrailing(SubSeq(p, 1, Len(p) - 1)) ELSE p
\* a replace that strips the leading separators only
StripSepsBug(p) == StripLeading(p)
StripSeps(p) == StripTrailing(StripLeading(p))

\* p.trim() !== ""
IsBlank(p) == \A i \in 1..Len(p) : p[i] = " "

\* joinPath(...paths)
joinPath(paths) ==
  LET segs == SelectSeq([i \in 1..Len(paths) |-> StripSeps(paths[i])],
                        LAMBDA p : ~IsBlank(p))
      F[i \in 0..Len(segs)] ==
        IF i = 0 THEN <<>> ELSE F[i - 1] \o <<Sep>> \o segs[i]
  IN F[Len(segs)]

(***************************************************************************)
(* Handlers.  A handler is known by its identity; HandlerDoc is the doc    *)
(* property it carries (middleware(callback, doc) sets callback.doc).      *)
(***************************************************************************)
Handlers == {"m1", "m2", "h1", "h2"}
HandlerDoc(h) ==
  CASE h = "m1" -> Rec2(KSummary, Str("a"), KTags, List(<<Str("b")>>))
    [] h = "h1" -> Rec1(KTags, List(<<Str("c")>>))
    [] h = "m2" -> EmptyRec
    [] OTHER -> Undefined

\* getDocHandles(...handles)
getDocHandles(handles) ==
  SelectSeq([i \in 1..Len(handles) |-> HandlerDoc(handles[i])],
            LAMBDA d : d.t # "undefined" /\ OwnKeys(d) # {})

\* doc || {}
DocOr(d) == IF d.t = "undefined" THEN EmptyRec ELSE d

(***************************************************************************)
(* The heap of Layer objects: nodes[n] is the Layer with identity n.       *)
(* An entry (ILayer) of type "route" refers to a Layer by identity.        *)
(***************************************************************************)
NoRoute == 0

\* new Layer(path, doc)
NewLayerObj(path, doc) == [path |-> path, doc |-> DocOr(doc), entries |-> <<>>]

\* the object pushed by pushPath
PushedEntry(node, type, method, path, handle, doc) ==
  [ path |-> path, method |-> method, type |-> type, handle |-> handle,
    doc |-> JoinDocs(<<node.doc>> \o getDocHandles(handle) \o <<doc>>),
    route |-> NoRoute ]

\* the object pushed by Layer.route
RouteEntry(path, r) ==
  [ path |-> path, method |-> "use", type |-> "route", handle |-> <<>>,
    doc |-> Undefined, route |-> r ]

\* this.push(entry) on the Layer n
Push(ns, n, e) == [ns EXCEPT ![n].entries = Append(@, e)]

\* Layer.pushPath: a doc that cannot be merged throws before the push
pushPath(ns, n, type, method, path, handle, doc) ==
  LET e == PushedEntry(ns[n], type, method, path, handle, doc)
  IN IF e.doc.t = "raise" THEN ns ELSE Push(ns, n, e)

\* Layer.middleware(handle, doc)
LayerMiddlewareOp(ns, n, handle, doc) ==
  pushPath(ns, n, "middleware", "use", ns[n].path, handle, JoinDocs(<<ns[n].doc, doc>>))

\* Layer.get(path, handle, doc)
LayerGetOp(ns, n, path, handle, doc) ==
  pushPath(ns, n, "layer", "get", joinPath(<<ns[n].path, path>>), handle,
           JoinDocs(<<ns[n].doc, doc>>))

\* Layer.route(path, doc): the new Layer has identity Len(ns) + 1
LayerRouteOp(ns, n, path, doc) ==
  LET root == Len(ns) + 1
      ns1 == Append(ns, NewLayerObj(joinPath(<<ns[n].path, path>>), doc))
  IN Push(ns1, n, RouteEntry(path, root))

\* Layer.route(path, route, doc), reached from Layer.by
LayerRouteAttachOpBug(ns, n, path, r, doc) ==
  LET root == Len(ns) + 1
      ns1 == Append(ns, NewLayerObj(joinPath(<<ns[n].path, path>>), doc))
      ns2 == Push(ns1, n, RouteEntry(<<>>, root))
  IN [ns2 EXCEPT ![root].entries = ns[r].entries]
LayerRouteAttachOp(ns, n, path, r, doc) ==
  LET root == Len(ns) + 1
      ns1 == Append(ns, NewLayerObj(joinPath(<<ns[n].path, path>>), doc))
      ns2 == Push(ns1, n, RouteEntry(<<>>, root))
  IN Push(ns2, root, RouteEntry(<<>>, r))

\* Layer.by(route, doc)
LayerByOp(ns, n, r, doc) == LayerRouteAttachOp(ns, n, ns[r].path, r, doc)

\* Router.route(path): new Router("", this.layers.route(path)); the Router
\* constructor assigns this.layers.path = routePath
RouterRouteOp(ns, n, path) ==
  LET ns1 == LayerRouteOp(ns, n, path, Undefined)
  IN [ns1 EXCEPT ![Len(ns1)].path = <<>>]

(***************************************************************************)
(* Flattening: the getter Layer.routes.                                    *)
(***************************************************************************)
\* the Layers reachable from n through entries of type "route"
Children(ns, n) ==
  {ns[n].entries[i].route : i \in {j \in 1..Len(ns[n].entries) : ns[n].entries[j].type = "route"}}
RECURSIVE ReachFrom(_, _, _)
ReachFrom(ns, S, k) ==
  IF k = 0 THEN S
  ELSE ReachFrom(ns, S \cup UNION {Children(ns, m) : m \in S}, k - 1)
Descendants(ns, n) == ReachFrom(ns, Children(ns, n), Len(ns))
\* the getter returns only when no Layer below n contains itself
CanFlatten(ns, n) == \A m \in {n} \cup Descendants(ns, n) : m \notin Descendants(ns, m)

\* case "middleware": middlewares.push(...handles); docs.push(...)
AccumulateMiddleware(a, layer) ==
  [a EXCEPT !.middlewares = @ \o layer.handle,
            !.docs = @ \o getDocHandles(layer.handle) \o <<DocOr(layer.doc)>>]

\* default case: const handles = [...middlewares, ...(layer.handle || [])]
LayerHandlesBug(middlewares, layer) == layer.handle \o middlewares
LayerHandles(middlewares, layer) == middlewares \o layer.handle

\* case "route": const handles = [...middlewares, ...(layer.handle || []), ...route.handle]
SubtreeHandlesBug(middlewares, layer, route) == route.handle \o layer.handle
SubtreeHandles(middlewares, layer, route) == middlewares \o layer.handle \o route.handle

\* routes.push(...): the emitted routes go to the end of the list
EmitBug(routes, new) == new \o routes
Emit(routes, new) == routes \o new

\* a route whose index is its position in the list of emitted routes
LayerRouteOfBug(a, layer, index) ==
  LET handles == LayerHandles(a.middlewares, layer)
  IN [ index |-> Len(a.routes),
       path |-> layer.path,
       method |-> layer.method,
       handle |-> handles,
       doc |-> JoinDocs(a.docs \o getDocHandles(handles) \o <<DocOr(layer.doc)>>) ]
\* default case: the route emitted for an entry of type "layer"
LayerRouteOf(a, layer, index) ==
  LET handles == LayerHandles(a.middlewares, layer)
  IN [ index |-> index,
       path |-> layer.path,
       method |-> layer.method,
       handle |-> handles,
       doc |-> JoinDocs(a.docs \o getDocHandles(handles) \o <<DocOr(layer.doc)>>) ]

\* case "route": the route emitted for one route of the child Layer
SubtreeRouteOf(a, layer, index, route) ==
  LET handles == SubtreeHandles(a.middlewares, layer, route)
  IN [ index |-> index,
       path |-> joinPath(<<layer.path, route.path>>),
       method |-> route.method,
       handle |-> handles,
       doc |-> JoinDocs(a.docs \o getDocHandles(handles)
                        \o <<DocOr(layer.doc), DocOr(route.doc)>>) ]

RECURSIVE Routes(_, _)
\* get routes(), evaluated on the Layer n of the heap ns
Routes(ns, n) ==
  LET es == ns[n].entries
      \* the accumulators after the first i entries
      Acc[i \in 0..Len(es)] ==
        IF i = 0 THEN [routes |-> <<>>, middlewares |-> <<>>, docs |-> <<>>]
        ELSE
          LET a == Acc[i - 1]
              layer == es[i]
              index == i - 1
          IN CASE layer.type = "middleware" -> AccumulateMiddleware(a, layer)
               [] layer.type = "route" ->
                    LET sub == Routes(ns, layer.route)
                    IN [a EXCEPT !.routes =
                          Emit(@, [j \in 1..Len(sub) |-> SubtreeRouteOf(a, layer, index, sub[j])])]
               [] OTHER ->
                    [a EXCEPT !.routes = Emit(@, <<LayerRouteOf(a, layer, index)>>)]
  IN Acc[Len(es)].routes

\* what the getter leaves behind in the heap: it assigns no field of any
\* Layer or entry (the accumulators and the emitted routes are fresh arrays)
FlattenEffectBug(ns, n) == [ns EXCEPT ![n].entries = <<>>]
FlattenEffect(ns, n) == ns

(***************************************************************************)
(* State.                                                                  *)
(*   nodes   the heap of Layers                                            *)
(*   origin  history: how each Layer was created                           *)
(*   flat    the result of the last evaluation of the getter routes, until *)
(*           the next builder call                                         *)
(*   lastOp  history: the name of the last operation                       *)
(***************************************************************************)
VARIABLES nodes, origin, flat, lastOp

(***************************************************************************)
(* One call of joinObject or joinDocs.                                     *)
(*   mIn     the arguments of the call                                     *)
(*   mOut    the function called and what it returned                      *)
(***************************************************************************)
VARIABLES mIn, mOut

(***************************************************************************)
(* One call of joinPath.                                                   *)
(*   pIn     the segments passed                                           *)
(*   pOut    whether the call was made and the path returned               *)
(***************************************************************************)
VARIABLES pIn, pOut

(***************************************************************************)
(* One request running a chain of wrappers built by                        *)
(* createDynamicMiddleware.                                                *)
(*   chain        the underlying middleware of each wrapper, by identity   *)
(*   driver       "next": each wrapper is started by the next of the one   *)
(*                before it; "loop": Layer.executeMiddlewares              *)
(*   phase        "idle" before the request, "running" afterwards          *)
(*   executed     req.__executedMiddlewares__                              *)
(*   onceId       the identity captured by the closure req.executeOnce     *)
(*   headersSent  res.headersSent                                          *)
(*   timers       the handlers waiting behind setTimeout(0) in tryHandler  *)
(*   suspended    the handlers that started and wait at an await           *)
(*   contCalls    how often the caller's continuation was called           *)
(*   reqNo        the number of requests started                           *)
(*   invoked, optedIn, disciplined   history of the handler invocations    *)
(*   skipped      the positions whose wrapper found its identity executed  *)
(*   nextBy       the positions whose handler called next                  *)
(*   contBy       the positions whose next was the caller's continuation   *)
(*   lateStart    a handler was started after the response was finalized   *)
(*   failures     the errors caught by tryHandler and what it answered       *)
(***************************************************************************)
VARIABLES chain, driver, phase, executed, onceId, headersSent, timers,
          suspended, contCalls, reqNo, invoked, optedIn, disciplined,
          skipped, nextBy, contBy, lateStart, failures

(***************************************************************************)
(* Several requests in flight through one chain of wrappers.               *)
(*   reqs    per request: its phase, the part of the request object the    *)
(*           wrappers and handlers work on, and how often the handler of   *)
(*           each instance ran                                             *)
(***************************************************************************)
VARIABLES reqs

(***************************************************************************)
(* Reusable middleware components (RequestMiddleware, Middleware).         *)
(*   routers  the Router objects: the callbacks each holds, in order       *)
(*   comps    the components: the Router each refers to and the callbacks  *)
(*            it was built from                                            *)
(***************************************************************************)
VARIABLES routers, comps

treeVars == <<nodes, origin, flat, lastOp>>
twoVars == <<reqs>>
compVars == <<routers, comps>>
mergeVars == <<mIn, mOut>>
pathVars == <<pIn, pOut>>
execVars == <<chain, driver, phase, executed, onceId, headersSent, timers,
              suspended, contCalls, reqNo, invoked, optedIn, disciplined,
              skipped, nextBy, contBy, lateStart, failures>>
vars == <<treeVars, mergeVars, pathVars, execVars, twoVars, compVars>>

Mids == {"A", "B"}
NoOut == [op |-> "none", res |-> Undefined]
\* no merge was called
MergeIdle == mIn = <<>> /\ mOut = NoOut
NoPath == [called |-> FALSE, path |-> <<>>]
\* no path was joined
PathIdle == pIn = <<>> /\ pOut = NoPath
\* no concurrent requests, no components
TwoIdle == reqs = <<>>
CompIdle == routers = <<>> /\ comps = <<>>
\* no request was started
ExecIdle ==
  /\ chain = <<>> /\ driver = "next" /\ phase = "idle" /\ executed = {}
  /\ onceId = "none" /\ headersSent = FALSE /\ timers = <<>> /\ suspended = <<>>
  /\ contCalls = 0
  /\ reqNo = 0 /\ invoked = [m \in Mids |-> 0] /\ optedIn = [m \in Mids |-> TRUE]
  /\ disciplined = TRUE
  /\ skipped = {} /\ nextBy = {} /\ contBy = {} /\ lateStart = FALSE
  /\ failures = {}

NoFlat == [node |-> 0, routes |-> <<>>]
NodeIds == 1..Len(nodes)
RECURSIVE SumLen(_, _)
SumLen(ns, i) == IF i = 0 THEN 0 ELSE Len(ns[i].entries) + SumLen(ns, i - 1)
TotalEntries == SumLen(nodes, Len(nodes))

\* inputs of the builder calls
SlashA == <<"/", "a">>
SlashR == <<"/", "r">>
SlashU == <<"/", "u">>
SubPaths == {SlashA}
RootPaths == {<<>>, SlashR}
RoutePaths == {SlashU}
MiddlewareHandles == {<<"m1">>, <<"m2">>}
RouteHandles == {<<"h1">>}
ByMiddlewareHandles == {<<"m1">>}

RootOrigin == [kind |-> "new", parent |-> 0, target |-> 0, len |-> 0]

\* one Layer built by new Layer(path), with the empty prefix or with "/r"
TreeInit ==
  /\ MergeIdle /\ PathIdle /\ ExecIdle /\ TwoIdle /\ CompIdle
  /\ \E pp \in RootPaths : nodes = <<NewLayerObj(pp, EmptyRec)>>
  /\ origin = <<RootOrigin>>
  /\ flat = NoFlat
  /\ lastOp = "init"

\* three Layers built by new Layer(path): two with the empty prefix and
\* one with the prefix "/r"
ByInit ==
  /\ MergeIdle /\ PathIdle /\ ExecIdle /\ TwoIdle /\ CompIdle
  /\ nodes = <<NewLayerObj(<<>>, EmptyRec), NewLayerObj(<<>>, EmptyRec),
               NewLayerObj(SlashR, EmptyRec)>>
  /\ origin = <<RootOrigin, RootOrigin, RootOrigin>>
  /\ flat = NoFlat
  /\ lastOp = "init"

Roots == {n \in NodeIds : origin[n].kind = "new"}
\* the Layers the caller holds: Layer.by returns this and keeps the Layer it
\* creates between the parent and the attached Layer to itself
Held == {n \in NodeIds : origin[n].kind # "by"}

\* pushPath reads this.routes after it has pushed the entry: the getter
\* recurses without end on a Layer that contains itself and the call is left
\* by a RangeError, the entry staying pushed
pushPathOutcome(ns, n, op) == IF CanFlatten(ns, n) THEN op ELSE "RangeError"

\* Layer.middleware(handle, doc)
LayerMiddleware(n, handle, doc) ==
  /\ UNCHANGED <<mergeVars, pathVars, execVars, twoVars, compVars>>
  /\ nodes' = LayerMiddlewareOp(nodes, n, handle, doc)
  /\ flat' = NoFlat
  /\ lastOp' = pushPathOutcome(nodes', n, "middleware")
  /\ UNCHANGED origin

\* Layer.get(path, handle, doc)
LayerGet(n, path, handle, doc) ==
  /\ UNCHANGED <<mergeVars, pathVars, execVars, twoVars, compVars>>
  /\ nodes' = LayerGetOp(nodes, n, path, handle, doc)
  /\ flat' = NoFlat
  /\ lastOp' = pushPathOutcome(nodes', n, "get")
  /\ UNCHANGED origin

\* Layer.route(path, doc)
LayerRoute(n, path, doc) ==
  /\ UNCHANGED <<mergeVars, pathVars, execVars, twoVars, compVars>>
  /\ nodes' = LayerRouteOp(nodes, n, path, doc)
  /\ origin' = Append(origin, [kind |-> "route", parent |-> n, target |-> 0, len |-> 0])
  /\ flat' = NoFlat
  /\ lastOp' = "route"

\* Router.route(path)
RouterRoute(n, path) ==
  /\ UNCHANGED <<mergeVars, pathVars, execVars, twoVars, compVars>>
  /\ nodes' = RouterRouteOp(nodes, n, path)
  /\ origin' = Append(origin, [kind |-> "routerRoute", parent |-> n, target |-> 0, len |-> 0])
  /\ flat' = NoFlat
  /\ lastOp' = "routerRoute"

\* Layer.by(route, doc) / Router.by(router)
LayerBy(n, r, doc) ==
  /\ UNCHANGED <<mergeVars, pathVars, execVars, twoVars, compVars>>
  /\ nodes' = LayerByOp(nodes, n, r, doc)
  /\ origin' = Append(origin, [kind |-> "by", parent |-> n, target |-> r,
                               len |-> Len(nodes[r].entries)])
  /\ flat' = NoFlat
  /\ lastOp' = "by"

\* reading the getter Layer.routes of the Layer n
Flatten(n) ==
  /\ UNCHANGED <<mergeVars, pathVars, execVars, twoVars, compVars>>
  /\ CanFlatten(nodes, n)
  /\ nodes' = FlattenEffect(nodes, n)
  /\ flat' = [node |-> n, routes |-> Routes(nodes, n)]
  /\ lastOp' = "flatten"
  /\ UNCHANGED origin

Init == TreeInit

\* the bounds of the exploration
RoomFor(k, maxEntries) == TotalEntries + k <= maxEntries
RoomForNode(maxNodes) == Len(nodes) < maxNodes

Next ==
  \/ \E n \in NodeIds, h \in MiddlewareHandles :
       RoomFor(1, MaxEntries) /\ LayerMiddleware(n, h, EmptyRec)
  \/ \E n \in NodeIds, p \in RoutePaths, h \in RouteHandles :
       RoomFor(1, MaxEntries) /\ LayerGet(n, p, h, EmptyRec)
  \/ \E n \in NodeIds, p \in SubPaths :
       RoomFor(1, MaxEntries) /\ RoomForNode(MaxNodes) /\ LayerRoute(n, p, EmptyRec)
  \/ \E n \in NodeIds, p \in SubPaths :
       RoomFor(1, MaxEntries) /\ RoomForNode(MaxNodes) /\ RouterRoute(n, p)
  \/ \E n \in NodeIds : Flatten(n)

Spec == Init /\ [][Next]_vars

\* the doc argument of Layer.by: left out, or a fragment with a key that no
\* handler and no entry carries
ByDocs == {Undefined, Rec1(KX, Str("x"))}

NextBy ==
  \/ \E n \in Held, h \in ByMiddlewareHandles :
       RoomFor(1, MaxByEntries) /\ LayerMiddleware(n, h, EmptyRec)
  \/ \E n \in Held, p \in RoutePaths, h \in RouteHandles :
       RoomFor(1, MaxByEntries) /\ LayerGet(n, p, h, EmptyRec)
  \/ \E n \in Held, r \in Roots, d \in ByDocs :
       RoomFor(2, MaxByEntries) /\ RoomForNode(MaxByNodes) /\ LayerBy(n, r, d)
  \/ \E n \in Held : Flatten(n)

SpecBy == ByInit /\ [][NextBy]_vars

(***************************************************************************)
(* Reading a flattened list against the tree it was computed from.         *)
(***************************************************************************)
Flattened == flat.node # 0
FlatNode == nodes[flat.node]
\* the routes of a list that were emitted for the entry at position i (1-based)
EmittedFor(routes, i) == SelectSeq(routes, LAMBDA r : r.index = i - 1)
\* the handlers of the middleware entries of a node before position i
RECURSIVE MiddlewaresBefore(_, _)
MiddlewaresBefore(node, i) ==
  IF i <= 1 THEN <<>>
  ELSE MiddlewaresBefore(node, i - 1) \o
       (IF node.entries[i - 1].type = "middleware" THEN node.entries[i - 1].handle ELSE <<>>)
EntriesOfType(node, type) == {i \in 1..Len(node.entries) : node.entries[i].type = type}

\* C1: in a flattened list, every route entry (type "layer") of the node
\* yields one route whose handler chain is the handlers of all middleware
\* entries before it in the node, in order, followed by its own handlers.
C1_InheritedPrefix ==
  Flattened =>
    \A i \in EntriesOfType(FlatNode, "layer") :
      LET rs == EmittedFor(flat.routes, i)
      IN /\ Len(rs) = 1
         /\ rs[1].handle = MiddlewaresBefore(FlatNode, i) \o FlatNode.entries[i].handle

\* a flattened node with a middleware entry before and another after a route entry
C1_Witness ==
  /\ Flattened
  /\ \E i \in EntriesOfType(FlatNode, "layer") :
       /\ \E j \in EntriesOfType(FlatNode, "middleware") : j < i
       /\ \E k \in EntriesOfType(FlatNode, "middleware") :
            k > i /\ FlatNode.entries[k].handle # FlatNode.entries[1].handle
       /\ FlatNode.entries[1].type = "middleware"

\* C3: the flattened list follows the declaration order of the entries: the
\* entry positions of the emitted routes never decrease, a route entry emits
\* one route, a middleware entry none, and a subtree entry emits, as one
\* contiguous block, one route per route of its child, in the child's order.
IndexSorted(routes) ==
  \A j, k \in 1..Len(routes) : j < k => routes[j].index <= routes[k].index
C3_DeclarationOrder ==
  Flattened =>
    /\ IndexSorted(flat.routes)
    /\ \A r \in 1..Len(flat.routes) : flat.routes[r].index + 1 \in 1..Len(FlatNode.entries)
    /\ \A i \in 1..Len(FlatNode.entries) :
         LET e == FlatNode.entries[i]
             rs == EmittedFor(flat.routes, i)
         IN CASE e.type = "layer" -> Len(rs) = 1 /\ rs[1].path = e.path
              [] e.type = "middleware" -> Len(rs) = 0
              [] OTHER ->
                   LET sub == Routes(nodes, e.route)
                   IN /\ Len(rs) = Len(sub)
                      /\ \A j \in 1..Len(sub) :
                           /\ rs[j].path = joinPath(<<e.path, sub[j].path>>)
                           /\ rs[j].method = sub[j].method

\* a flattened node whose subtree entry, holding two routes, lies between two route entries
C3_Witness ==
  /\ Flattened
  /\ \E i \in EntriesOfType(FlatNode, "route") :
       /\ Len(Routes(nodes, FlatNode.entries[i].route)) >= 2
       /\ \E k \in EntriesOfType(FlatNode, "layer") : k > i

\* C5: every route a parent emits for a subtree entry has the chain: handlers
\* of the parent's middleware entries before the subtree entry, then the
\* subtree entry's own handlers, then the chain the child's own flattening
\* gives that route.
C5_SubtreeChain ==
  Flattened =>
    \A i \in EntriesOfType(FlatNode, "route") :
      LET e == FlatNode.entries[i]
          rs == EmittedFor(flat.routes, i)
          sub == Routes(nodes, e.route)
      IN /\ Len(rs) = Len(sub)
         /\ \A j \in 1..Len(sub) :
              rs[j].handle = MiddlewaresBefore(FlatNode, i) \o e.handle \o sub[j].handle

\* a flattened parent with a middleware entry before and one after a subtree
\* entry whose child holds a route
C5_Witness ==
  /\ Flattened
  /\ \E i \in EntriesOfType(FlatNode, "route") :
       /\ \E j \in EntriesOfType(FlatNode, "middleware") : j < i
       /\ \E k \in EntriesOfType(FlatNode, "middleware") : k > i
       /\ Len(Routes(nodes, FlatNode.entries[i].route)) >= 1

\* C4: a route appended with path q to a child created by Layer.route(p)
\* or Router.route(p) on a node with prefix pp is emitted, when the node is
\* flattened, with the path join(pp, p, q).
CreatedBySubtree(c) == origin[c].kind \in {"route", "routerRoute"}
C4_JoinedOnce ==
  Flattened =>
    \A i \in EntriesOfType(FlatNode, "route") :
      LET e == FlatNode.entries[i]
          child == nodes[e.route]
          sub == Routes(nodes, e.route)
          rs == EmittedFor(flat.routes, i)
      IN CreatedBySubtree(e.route) =>
           \A k \in 1..Len(sub) :
             child.entries[sub[k].index + 1].type = "layer" =>
               \E q \in RoutePaths : rs[k].path = joinPath(<<FlatNode.path, e.path, q>>)

\* the number of routes the entry at position i of a node emits
EmittedCount(node, i) ==
  LET e == node.entries[i]
  IN CASE e.type = "middleware" -> 0
       [] e.type = "route" -> Len(Routes(nodes, e.route))
       [] OTHER -> 1
RECURSIVE EmittedBefore(_, _)
EmittedBefore(node, i) ==
  IF i <= 1 THEN 0 ELSE EmittedBefore(node, i - 1) + EmittedCount(node, i - 1)

\* C23 as stated: the i-th route of a flattened list (from 0) has index i.
C23_IndexIsListPosition ==
  Flattened => \A k \in 1..Len(flat.routes) : flat.routes[k].index = k - 1

\* C23: the index of a route of a flattened list is the position (from 0) of
\* the entry of the flattened node that emitted it: a middleware entry takes
\* a position and emits nothing, and the routes of one subtree entry share
\* one index.
C23_IndexIsEntryPosition ==
  Flattened =>
    \A k \in 1..Len(flat.routes) :
      LET i == flat.routes[k].index + 1
      IN /\ i \in 1..Len(FlatNode.entries)
         /\ FlatNode.entries[i].type # "middleware"
         /\ k > EmittedBefore(FlatNode, i)
         /\ k <= EmittedBefore(FlatNode, i) + EmittedCount(FlatNode, i)

\* a flattened node with a middleware entry first and a subtree entry that
\* emits two routes, both carrying the position of that entry
C23_Witness ==
  /\ Flattened
  /\ Len(FlatNode.entries) >= 2
  /\ FlatNode.entries[1].type = "middleware"
  /\ \E i \in EntriesOfType(FlatNode, "route") :
       /\ EmittedCount(FlatNode, i) >= 2
       /\ \E k \in 1..(Len(flat.routes) - 1) :
            /\ flat.routes[k].index = i - 1
            /\ flat.routes[k + 1].index = i - 1

\* C27 as stated: after any sequence of builder operations, attaching a
\* Layer to itself or below itself included, no Layer is reached from itself
\* through subtree entries, reading the routes of any Layer returns, and no
\* append is left by the getter's unbounded recursion.
C27_AcyclicAndTerminating ==
  /\ \A n \in NodeIds : n \notin Descendants(nodes, n)
  /\ \A n \in NodeIds : CanFlatten(nodes, n)
  /\ lastOp # "RangeError"

AttachEntries(n) ==
  {i \in EntriesOfType(nodes[n], "route") : origin[nodes[n].entries[i].route].kind = "by"}
C8_SharedByReference ==
  Flattened =>
    \A i \in AttachEntries(flat.node) :
      LET root == FlatNode.entries[i].route
          target == origin[root].target
          rs == EmittedFor(flat.routes, i)
          cur == Routes(nodes, target)
      IN /\ Len(rs) = Len(cur)
         /\ \A j \in 1..Len(cur) :
              /\ rs[j].method = cur[j].method
              /\ rs[j].path = joinPath(<<cur[j].path>>)
              /\ rs[j].handle = MiddlewaresBefore(FlatNode, i) \o cur[j].handle

\* a Layer attached to two parents received an entry after both attachments,
\* and one of the parents was flattened afterwards
GrewSinceAttach(root) ==
  Len(Routes(nodes, origin[root].target)) > 0 /\
  Len(nodes[origin[root].target].entries) > origin[root].len
C8_Witness ==
  /\ Flattened
  /\ \E i \in AttachEntries(flat.node) :
       LET root == FlatNode.entries[i].route
       IN /\ GrewSinceAttach(root)
          /\ \E r2 \in NodeIds :
               /\ origin[r2].kind = "by"
               /\ origin[r2].target = origin[root].target
               /\ origin[r2].parent # origin[root].parent
               /\ origin[r2].parent # origin[r2].target
               /\ origin[root].parent # origin[root].target
               /\ GrewSinceAttach(r2)

\* C26 as stated: the doc passed to Layer.by(route, doc) is the fragment of
\* the attachment entry and is merged into the doc of every route the
\* flattening emits for that entry: each key of the fragment that the routes
\* of the attached Layer do not set themselves is in the doc of the emitted
\* route, with the fragment's value.
C26_AttachDocMerged ==
  Flattened =>
    \A i \in AttachEntries(flat.node) :
      LET passed == nodes[FlatNode.entries[i].route].doc
          rs == EmittedFor(flat.routes, i)
      IN \A k \in 1..Len(rs) :
           \A key \in OwnKeys(passed) : GetKey(rs[k].doc, key) = GetKey(passed, key)

(***************************************************************************)
(* Documentation of the flattened routes: one Layer with the empty prefix, *)
(* entries with explicit doc fragments and handlers that carry fragments.  *)
(***************************************************************************)
DocInputs == {EmptyRec, Rec2(KSummary, Str("b"), KTags, List(<<Str("a")>>))}
DocMiddlewareHandles == {<<"m1">>}
DocRouteHandles == {<<"h1">>, <<"h2">>}

DocInit ==
  /\ MergeIdle /\ PathIdle /\ ExecIdle /\ TwoIdle /\ CompIdle
  /\ nodes = <<NewLayerObj(<<>>, EmptyRec)>>
  /\ origin = <<RootOrigin>>
  /\ flat = NoFlat
  /\ lastOp = "init"

NextDoc ==
  \/ \E n \in Held, h \in DocMiddlewareHandles, d \in DocInputs :
       RoomFor(1, MaxDocEntries) /\ LayerMiddleware(n, h, d)
  \/ \E n \in Held, p \in RoutePaths, h \in DocRouteHandles, d \in DocInputs :
       RoomFor(1, MaxDocEntries) /\ LayerGet(n, p, h, d)
  \/ \E n \in Held, p \in SubPaths, d \in DocInputs :
       RoomFor(1, MaxDocEntries) /\ RoomForNode(MaxDocNodes) /\ LayerRoute(n, p, d)
  \/ \E n \in Held : Flatten(n)

SpecDoc == DocInit /\ [][NextDoc]_vars

\* the fragments a node has accumulated before position i: for each
\* middleware entry, the fragments its handlers carry, then its own fragment
RECURSIVE InheritedDocs(_, _)
InheritedDocs(node, i) ==
  IF i <= 1 THEN <<>>
  ELSE InheritedDocs(node, i - 1) \o
       (IF node.entries[i - 1].type = "middleware"
        THEN getDocHandles(node.entries[i - 1].handle) \o <<DocOr(node.entries[i - 1].doc)>>
        ELSE <<>>)

\* C6: the doc of the route emitted for a route entry is the left-to-right
\* merge of the inherited fragments, then the fragments carried by the
\* entry's own handlers, then the entry's own fragment.
C6_DocOrder ==
  Flattened =>
    \A i \in EntriesOfType(FlatNode, "layer") :
      LET e == FlatNode.entries[i]
          rs == EmittedFor(flat.routes, i)
      IN rs[1].doc = JoinDocs(InheritedDocs(FlatNode, i) \o getDocHandles(e.handle)
                              \o <<DocOr(e.doc)>>)

\* C7: the routes a parent emits for a subtree entry that has no middleware
\* entry before it are, one for one and in order, the routes of the child
\* flattened alone, with the same doc and the path joined under the entry's
\* path segment.
C7_SubtreeIsolation ==
  Flattened =>
    \A i \in EntriesOfType(FlatNode, "route") :
      LET e == FlatNode.entries[i]
          rs == EmittedFor(flat.routes, i)
          sub == Routes(nodes, e.route)
      IN (\A j \in EntriesOfType(FlatNode, "middleware") : j > i) =>
           /\ Len(rs) = Len(sub)
           /\ \A j \in 1..Len(sub) :
                /\ rs[j].doc = sub[j].doc
                /\ rs[j].path = joinPath(<<e.path, sub[j].path>>)

(***************************************************************************)
(* Calls of joinObject and joinDocs on two fragments.                      *)
(***************************************************************************)
Elems == {Str("a"), Str("b")}
ListsUpTo(n) == UNION {[1..k -> Elems] : k \in 0..n}
TagsVals == {Absent} \cup {List(l) : l \in ListsUpTo(MaxListLen)}
SummaryVals == {Absent, Str("a")}
XVals == {Absent, Null, Num("1"), Opaque("Date"),
          Rec1(KTags, List(<<Str("a"), Str("a")>>)), Rec1(KSummary, Str("b"))}
Fragments ==
  {[EmptyRec EXCEPT !.c[KSummary] = s, !.c[KTags] = t, !.c[KX] = x] :
     s \in SummaryVals, t \in TagsVals, x \in XVals}

\* fragments whose key x holds every shape of value
ShapeVals ==
  {Absent, Null, Num("1"), Str("a"), List(<<Str("a")>>), List(<<Str("b"), Str("a")>>),
   Opaque("Date"), Rec1(KTags, List(<<Str("a")>>)), Rec1(KSummary, Str("b"))}
ShapeFragments ==
  {[EmptyRec EXCEPT !.c[KTags] = t, !.c[KX] = x] :
     t \in {Absent, List(<<Str("a"), Str("b")>>)}, x \in ShapeVals}

MergeInit ==
  /\ nodes = <<>> /\ origin = <<>> /\ flat = NoFlat /\ lastOp = "init"
  /\ PathIdle /\ ExecIdle /\ TwoIdle /\ CompIdle
  /\ mIn \in (Fragments \X Fragments)
             \cup (ShapeFragments \X ShapeFragments \X ShapeFragments)
  /\ mOut = NoOut

\* joinObject(mIn[1], mIn[2])
CallJoinObject ==
  /\ mOut' = [op |-> "joinObject", res |-> JoinObject(mIn[1], Tail(mIn))]
  /\ UNCHANGED <<mIn, treeVars, pathVars, execVars, twoVars, compVars>>

\* joinDocs(mIn[1], mIn[2])
CallJoinDocs ==
  /\ mOut' = [op |-> "joinDocs", res |-> JoinDocs(mIn)]
  /\ UNCHANGED <<mIn, treeVars, pathVars, execVars, twoVars, compVars>>

\* joinObject(joinObject(mIn[1], mIn[2]), mIn[3])
CallJoinObjectNested ==
  /\ Len(mIn) = 3
  /\ mOut' = [op |-> "joinObjectNested",
              res |-> JoinObject(JoinObject(mIn[1], <<mIn[2]>>), <<mIn[3]>>)]
  /\ UNCHANGED <<mIn, treeVars, pathVars, execVars, twoVars, compVars>>

NextMerge == CallJoinObject \/ CallJoinDocs \/ CallJoinObjectNested

SpecMerge == MergeInit /\ [][NextMerge]_vars

Called == mOut.op # "none"
\* the first occurrences of the elements of a list, in order
FirstOccurrences(l) ==
  LET idx == {i \in 1..Len(l) : \A j \in 1..(i - 1) : l[j] # l[i]}
      nth[k \in 0..Len(l)] ==
        IF k = 0 THEN 0 ELSE CHOOSE i \in idx : i > nth[k - 1] /\ \A j \in idx : j > nth[k - 1] => i <= j
  IN [k \in 1..Cardinality(idx) |-> l[nth[k]]]
\* a fragment with every list value, at any record depth, cut down to the
\* first occurrences of its elements
RECURSIVE WithoutRepeats(_)
WithoutRepeats(v) ==
  CASE v.t = "list" -> List(FirstOccurrences(v.c))
    [] v.t = "record" -> [v EXCEPT !.c = [k \in 1..NKeys |-> WithoutRepeats(v.c[k])]]
    [] OTHER -> v
HasRepeats(v) == WithoutRepeats(v) # v

\* C10 as stated: merging a fragment with the empty fragment returns a
\* fragment deeply equal to it.
C10_EmptyIsNeutral ==
  (Called /\ Len(mIn) = 2 /\ mIn[2] = EmptyRec) => mOut.res = mIn[1]

\* C10: merging a fragment X with the empty fragment returns X with every
\* list value cut down to the first occurrences of its elements; it returns
\* a fragment deeply equal to X when no list value of X repeats an element.
C10_EmptyIsNeutralWithoutRepeats ==
  (Called /\ Len(mIn) = 2 /\ mIn[2] = EmptyRec) =>
    /\ mOut.res = WithoutRepeats(mIn[1])
    /\ (~HasRepeats(mIn[1]) => mOut.res = mIn[1])

\* a fragment with a scalar, a list of two different elements and a nested
\* record was merged with the empty fragment
C10_Witness ==
  /\ Called /\ Len(mIn) = 2 /\ mIn[2] = EmptyRec
  /\ ~HasRepeats(mIn[1])
  /\ mIn[1].c[KSummary] # Absent
  /\ mIn[1].c[KTags].t = "list" /\ Len(mIn[1].c[KTags].c) = 2
  /\ mIn[1].c[KX].t = "record"
\* C11: joinObject(joinObject(A, B), C) and joinObject(A, B, C) are deeply
\* equal for all fragments A, B and C (both raise, or both return the same
\* value).
C11_FoldAssociative ==
  mOut.op = "joinObjectNested" => mOut.res = JoinObject(mIn[1], Tail(mIn))

\* three fragments were merged both ways without raising: lists at key x in
\* the first two, a record at key x in the third, lists at key tags
C11_Witness ==
  /\ mOut.op = "joinObjectNested"
  /\ mOut.res.t = "record"
  /\ mIn[1].c[KX].t = "list" /\ mIn[2].c[KX].t = "list" /\ mIn[1].c[KX] # mIn[2].c[KX]
  /\ mIn[3].c[KX].t = "record"
  /\ mIn[1].c[KTags].t = "list" /\ mIn[3].c[KTags].t = "list"

\* C12: when key x of the base holds an opaque value and key x of the overlay
\* holds a plain record, the merged value at x is the overlay's record.
C12_OpaqueReplaced ==
  (mOut.op \in {"joinObject", "joinDocs"} /\ Len(mIn) = 2
     /\ mIn[1].c[KX].t = "opaque" /\ mIn[2].c[KX].t = "record") =>
    mOut.res.c[KX] = WithoutRepeats(mIn[2].c[KX])

\* C13: when the overlay holds a list at a key where the base holds a list
\* or nothing, the merged value at that key is the base's list followed by
\* the overlay's list, reduced to the first occurrence of each element.
C13_ListConcatDedup ==
  (mOut.op \in {"joinObject", "joinDocs"} /\ Len(mIn) = 2) =>
    \A k \in {KTags, KX} :
      (mIn[2].c[k].t = "list" /\ mIn[1].c[k].t \in {"list", "absent"}) =>
        LET existing == IF mIn[1].c[k].t = "list" THEN mIn[1].c[k].c ELSE <<>>
        IN mOut.res.c[k] = List(FirstOccurrences(existing \o mIn[2].c[k].c))

\* the list [b] was merged with the list [b, a]: b is kept once, a is appended
C13_Witness ==
  /\ mOut.op \in {"joinObject", "joinDocs"} /\ Len(mIn) = 2
  /\ mIn[1].c[KTags] = List(<<Str("b")>>)
  /\ mIn[2].c[KTags] = List(<<Str("b"), Str("a")>>)
  /\ mOut.res.c[KTags] = List(<<Str("b"), Str("a")>>)

\* C14: joinObject and joinDocs return a value for every base and overlays,
\* whatever the shapes of the values that meet at a key.
C14_NeverRaises ==
  Called => mOut.res.t # "raise"

(***************************************************************************)
(* Calls of joinPath on a sequence of segments.                            *)
(***************************************************************************)
SeqsUpTo(S, n) == UNION {[1..k -> S] : k \in 0..n}
\* segments of separators and letters, and segments with white space
Segments ==
  SeqsUpTo({Sep, "a"}, MaxSegLen)
    \cup {<<" ">>, <<Sep, " ">>, <<" ", Sep>>, <<" ", "a">>}
\* "/a/", "//b", "", "c/"
ExampleSegments == <<<<Sep, "a", Sep>>, <<Sep, Sep, "b">>, <<>>, <<"c", Sep>>>>
PathInputs == SeqsUpTo(Segments, MaxSegs) \cup {ExampleSegments}

PathInit ==
  /\ nodes = <<>> /\ origin = <<>> /\ flat = NoFlat /\ lastOp = "init"
  /\ MergeIdle /\ ExecIdle /\ TwoIdle /\ CompIdle
  /\ pIn \in PathInputs
  /\ pOut = NoPath

\* joinPath(...pIn)
CallJoinPath ==
  /\ ~pOut.called
  /\ pOut' = [called |-> TRUE, path |-> joinPath(pIn)]
  /\ UNCHANGED <<pIn, treeVars, mergeVars, execVars, twoVars, compVars>>

NextPath == CallJoinPath

SpecPath == PathInit /\ [][NextPath]_vars

\* a segment without its leading and trailing separators
RECURSIVE Stripped(_)
Stripped(p) ==
  IF p = <<>> THEN p
  ELSE IF p[1] = Sep THEN Stripped(SubSeq(p, 2, Len(p)))
  ELSE IF p[Len(p)] = Sep THEN Stripped(SubSeq(p, 1, Len(p) - 1))
  ELSE p
\* the segments of keep, each behind one separator
RECURSIVE Joined(_)
Joined(keep) ==
  IF keep = <<>> THEN <<>>
  ELSE Joined(SubSeq(keep, 1, Len(keep) - 1)) \o <<Sep>> \o keep[Len(keep)]
StrippedAll(paths) == [i \in 1..Len(paths) |-> Stripped(paths[i])]
OnlySpaces(p) == \A i \in 1..Len(p) : p[i] = " "
\* empty, or one leading separator and no trailing separator
WellFormedPath(p) ==
  p = <<>> \/ (p[1] = Sep /\ Len(p) >= 2 /\ p[2] # Sep /\ p[Len(p)] # Sep)

\* C15 as stated: the result joins the stripped segments that are not empty.
C15_StripDropJoin ==
  pOut.called =>
    /\ pOut.path = Joined(SelectSeq(StrippedAll(pIn), LAMBDA p : p # <<>>))
    /\ WellFormedPath(pOut.path)

\* C15: joinPath strips the leading and trailing separators of each segment,
\* drops the segments that are then empty or hold white space only, and
\* returns the rest each behind one separator: the empty string, or a path
\* with one leading and no trailing separator; "/a/", "//b", "", "c/" give
\* "/a/b/c".
C15_StripDropBlankJoin ==
  pOut.called =>
    /\ pOut.path = Joined(SelectSeq(StrippedAll(pIn), LAMBDA p : ~OnlySpaces(p)))
    /\ WellFormedPath(pOut.path)
    /\ (pIn = ExampleSegments => pOut.path = <<Sep, "a", Sep, "b", Sep, "c">>)

\* the segments of the example were joined
C15_Witness ==
  pOut.called /\ pIn = ExampleSegments /\ pOut.path # <<>>

\* C16: the result of joinPath never holds two adjacent separators.
C16_NoAdjacentSeparators ==
  pOut.called =>
    \A i \in 1..(Len(pOut.path) - 1) : ~(pOut.path[i] = Sep /\ pOut.path[i + 1] = Sep)

(***************************************************************************)
(* Running a chain of wrappers for a request.  The part of the request     *)
(* the wrappers and handlers work on is a record st.                       *)
(***************************************************************************)
ReqState ==
  [executed |-> executed, onceId |-> onceId, headersSent |-> headersSent,
   timers |-> timers, suspended |-> suspended, contCalls |-> contCalls,
   skipped |-> skipped, nextBy |-> nextBy, contBy |-> contBy,
   failures |-> failures]
FreshReq ==
  [executed |-> {}, onceId |-> "none", headersSent |-> FALSE,
   timers |-> <<>>, suspended |-> <<>>, contCalls |-> 0,
   skipped |-> {}, nextBy |-> {}, contBy |-> {},
   failures |-> {}]

\* the continuation of the caller of the chain, called as the next of
\* position i (0: by the dispatcher itself)
Continue(st, i) == [st EXCEPT !.contCalls = @ + 1, !.contBy = @ \cup {i}]

\* the closure req.executeOnce with its flag inverted
executeOnceBug(st, isOnce) ==
  IF isOnce THEN [st EXCEPT !.executed = @ \ {st.onceId}]
  ELSE [st EXCEPT !.executed = @ \cup {st.onceId}]
\* req.executeOnce(isOnce), the closure installed by the last wrapper that
\* started its handler
executeOnce(st, isOnce) ==
  IF isOnce THEN [st EXCEPT !.executed = @ \cup {st.onceId}]
  ELSE [st EXCEPT !.executed = @ \ {st.onceId}]

\* the errors a handler throws: an Error or a HandleError, whose cause is a
\* number or something else
NotANumber == 0
Errors ==
  [class : {"Error", "HandleError"}, cause : {NotANumber, 404}]
\* get code() of HandleError
HandleErrorCode(error) == IF error.cause # NotANumber THEN error.cause ELSE 200
\* a status code taken from error.code for every HandleError
StatusCodeOfBug(error) ==
  IF error.class = "HandleError" THEN HandleErrorCode(error) ELSE 400
\* const code = error instanceof HandleError && typeof error.cause === "number"
\*   ? error.code : 400
StatusCodeOf(error) ==
  IF error.class = "HandleError" /\ error.cause # NotANumber
  THEN HandleErrorCode(error) ELSE 400

\* a wrapper without the try and catch: the error leaves the wrapper
catchErrorBug(st, i, error) ==
  [st EXCEPT !.failures = @ \cup {[error |-> error, code |-> 0,
                                    outcome |-> "escaped"]}]
\* the catch block of tryHandler for the handler of position i:
\* res.status(code).json({message, name, code}); a response finalized before
\* keeps what it was sent with
catchError(st, i, error) ==
  [st EXCEPT !.headersSent = TRUE,
             !.failures = @ \cup {[error |-> error,
                                    code |-> StatusCodeOf(error),
                                    outcome |-> IF st.headersSent THEN "late"
                                                ELSE "answered"]}]

\* tryHandler(middleware)(req, res, next) up to its setTimeout
tryHandler(st, i) ==
  IF st.headersSent THEN st ELSE [st EXCEPT !.timers = Append(@, i)]

RECURSIVE callback(_, _), NextOf(_, _)
\* a wrapper that neither runs its handler nor calls next when it skips
callbackBug(st, i) ==
  IF st.headersSent THEN st
  ELSE IF chain[i] \notin st.executed
       THEN tryHandler([st EXCEPT !.onceId = chain[i]], i)
       ELSE [st EXCEPT !.skipped = @ \cup {i}]
\* the wrapper at position i of the chain, called with the next of its driver
callback(st, i) ==
  IF st.headersSent THEN st
  ELSE IF chain[i] \notin st.executed
       THEN tryHandler([st EXCEPT !.onceId = chain[i]], i)
       ELSE NextOf([st EXCEPT !.skipped = @ \cup {i}], i)
\* a next that is the caller's continuation for every wrapper of the loop
NextOfBug(st, i) ==
  IF i >= Len(chain) \/ driver = "loop" THEN Continue(st, i)
  ELSE callback(st, i + 1)
\* the next a wrapper receives: under "next" it starts the following wrapper
\* and, after the last one, the continuation; under "loop" it is the
\* continuation for the last wrapper and a no-op for the others
NextOf(st, i) ==
  IF i >= Len(chain) THEN Continue(st, i)
  ELSE IF driver = "next" THEN callback(st, i + 1)
  ELSE st

\* the loop of Layer.executeMiddlewares from position i on
RECURSIVE executeMiddlewares(_, _)
executeMiddlewares(st, i) ==
  IF i > Len(chain) \/ st.headersSent THEN st
  ELSE executeMiddlewares(callback(st, i), i + 1)

\* what a handler that returns normally does, as a sequence of steps
Scripts ==
  {<<>>, <<"next">>, <<"once", "next">>, <<"once", "await", "next">>,
   <<"next", "await", "once">>, <<"once", "off", "next">>, <<"next", "next">>,
   <<"send">>}
\* handlers that throw, at once or after an await (a rejected promise), first
\* or after they have sent the response, next to one that calls next
FailScripts ==
  {<<"next">>, <<"throw">>, <<"throwCause">>, <<"throwHandleError">>,
   <<"throwHandleErrorCode">>, <<"await", "throwHandleErrorCode">>,
   <<"send", "throw">>}
\* the handler calls req.executeOnce() before it calls next
OnceBeforeNext(script) ==
  \E k \in 1..Len(script) :
    script[k] = "once" /\ \A j \in 1..(k - 1) : script[j] # "next"
\* the handler calls next at most once and never req.executeOnce(false)
SingleNext(script) ==
  /\ Cardinality({k \in 1..Len(script) : script[k] = "next"}) <= 1
  /\ \A k \in 1..Len(script) : script[k] # "off"

\* the steps that throw, and what they throw
ThrowOps == {"throw", "throwCause", "throwHandleError", "throwHandleErrorCode"}
Thrown(op) ==
  [class |-> IF op \in {"throw", "throwCause"} THEN "Error" ELSE "HandleError",
   cause |-> IF op \in {"throwCause", "throwHandleErrorCode"} THEN 404 ELSE NotANumber]

\* the handler of position i runs the steps ops up to its next await; a
\* throw is caught by tryHandler, which answers with the error
RECURSIVE RunHandler(_, _, _)
RunHandler(st, i, ops) ==
  IF ops = <<>> THEN st
  ELSE LET op == Head(ops)
       IN CASE op = "await" -> [st EXCEPT !.suspended = Append(@, [pos |-> i, ops |-> Tail(ops)])]
            [] op \in ThrowOps -> catchError(st, i, Thrown(op))
            [] op = "once" -> RunHandler(executeOnce(st, TRUE), i, Tail(ops))
            [] op = "off" -> RunHandler(executeOnce(st, FALSE), i, Tail(ops))
            [] op = "send" -> RunHandler([st EXCEPT !.headersSent = TRUE], i, Tail(ops))
            [] OTHER -> RunHandler(NextOf([st EXCEPT !.nextBy = @ \cup {i}], i), i, Tail(ops))

SetReq(st) ==
  /\ executed' = st.executed
  /\ onceId' = st.onceId
  /\ headersSent' = st.headersSent
  /\ timers' = st.timers
  /\ suspended' = st.suspended
  /\ contCalls' = st.contCalls
  /\ skipped' = st.skipped
  /\ nextBy' = st.nextBy
  /\ contBy' = st.contBy
  /\ failures' = st.failures

Chains == UNION {[1..k -> Mids] : k \in 0..MaxChain}
\* a chain of wrappers was built and a driver chosen; no request yet
ChainInit(chains) ==
  /\ nodes = <<>> /\ origin = <<>> /\ flat = NoFlat /\ lastOp = "init"
  /\ MergeIdle /\ PathIdle /\ CompIdle
  /\ chain \in chains
  /\ driver \in {"next", "loop"}
  /\ phase = "idle" /\ executed = {} /\ onceId = "none" /\ headersSent = FALSE
  /\ timers = <<>> /\ suspended = <<>> /\ contCalls = 0 /\ reqNo = 0
  /\ invoked = [m \in Mids |-> 0] /\ optedIn = [m \in Mids |-> TRUE]
  /\ disciplined = TRUE
  /\ skipped = {} /\ nextBy = {} /\ contBy = {} /\ lateStart = FALSE
  /\ failures = {}
ExecInitOf(chains) ==
  /\ TwoIdle
  /\ ChainInit(chains)

ExecInit == ExecInitOf(Chains)

\* a new request enters the chain
StartRequest ==
  /\ phase = "idle"
  /\ reqNo < MaxRequests
  /\ phase' = "running"
  /\ reqNo' = reqNo + 1
  /\ SetReq(IF driver = "loop" THEN executeMiddlewares(FreshReq, 1)
            ELSE IF chain = <<>> THEN Continue(FreshReq, 0)
            ELSE callback(FreshReq, 1))
  /\ invoked' = [m \in Mids |-> 0]
  /\ optedIn' = [m \in Mids |-> TRUE]
  /\ disciplined' = TRUE
  /\ lateStart' = FALSE
  /\ UNCHANGED <<chain, driver, treeVars, mergeVars, pathVars, twoVars, compVars>>

\* the timer of tryHandler fires and the handler starts
FireTimerOf(scripts) ==
  /\ phase = "running"
  /\ timers # <<>>
  /\ \E script \in scripts :
       LET i == Head(timers)
       IN /\ SetReq(RunHandler([ReqState EXCEPT !.timers = Tail(@)], i, script))
          /\ invoked' = [invoked EXCEPT ![chain[i]] = @ + 1]
          /\ optedIn' = [optedIn EXCEPT ![chain[i]] = @ /\ OnceBeforeNext(script)]
          /\ disciplined' = (disciplined /\ SingleNext(script))
  /\ lateStart' = (lateStart \/ headersSent)
  /\ UNCHANGED <<chain, driver, phase, reqNo, treeVars, mergeVars, pathVars, twoVars, compVars>>

FireTimer == FireTimerOf(Scripts)

\* a handler goes on after an await
Resume ==
  /\ phase = "running"
  /\ \E k \in 1..Len(suspended) :
       LET rest == [j \in 1..(Len(suspended) - 1) |->
                      IF j < k THEN suspended[j] ELSE suspended[j + 1]]
       IN SetReq(RunHandler([ReqState EXCEPT !.suspended = rest],
                            suspended[k].pos, suspended[k].ops))
  /\ UNCHANGED <<chain, driver, phase, reqNo, invoked, optedIn, disciplined, lateStart,
                 treeVars, mergeVars, pathVars, twoVars, compVars>>

\* nothing of the request is pending any more
EndRequest ==
  /\ phase = "running"
  /\ timers = <<>>
  /\ suspended = <<>>
  /\ phase' = "idle"
  /\ UNCHANGED <<chain, driver, executed, onceId, headersSent, timers, suspended,
                 contCalls, reqNo, invoked, optedIn, disciplined,
                 skipped, nextBy, contBy, lateStart, failures,
                 treeVars, mergeVars, pathVars, twoVars, compVars>>

NextExec == StartRequest \/ FireTimer \/ Resume \/ EndRequest

SpecExec == ExecInit /\ [][NextExec]_vars

\* requests whose handlers may fail
FailChains == UNION {[1..k -> Mids] : k \in 1..MaxFailChain}
FailInit == ExecInitOf(FailChains)
FireTimerFailing == FireTimerOf(FailScripts)
NextFail == StartRequest \/ FireTimerFailing \/ Resume \/ EndRequest
SpecFail == FailInit /\ [][NextFail]_vars

Occurrences(m) == Cardinality({i \in 1..Len(chain) : chain[i] = m})
Finished == phase = "idle" /\ reqNo > 0

SumInvoked == invoked["A"] + invoked["B"]

\* C17: under Layer.executeMiddlewares no two handlers of the chain are in
\* progress at the same time: a handler is started only when every handler
\* started before it has completed.
C17_OneAtATime ==
  driver = "loop" => Len(suspended) <= 1

\* C18: under Layer.executeMiddlewares no handler is started after the
\* response was finalized.
C18_StopsWhenFinalized ==
  driver = "loop" => ~lateStart

\* C19: under Layer.executeMiddlewares the wrapper of every position is
\* called whether or not the handlers before it call next, and the caller's
\* continuation is called through the next of the last position only.
C19_OnlyLastContinues ==
  (driver = "loop" /\ reqNo > 0) =>
    /\ contBy \subseteq {Len(chain)}
    /\ (contCalls > 0 => Len(chain) \in contBy \cap nextBy)
    /\ Len(timers) + SumInvoked = Len(chain)

\* the first handler of a longer chain called next, and so did the last one
C19_Witness ==
  /\ driver = "loop" /\ Len(chain) >= 2
  /\ 1 \in nextBy
  /\ contBy = {Len(chain)} /\ contCalls = 1

\* C20: a wrapper called while its identity is in the executed set and the
\* response is not finalized does not start its handler and calls next once,
\* at once: under next-chaining the following wrappers are called in chain
\* order up to the first one that starts its handler, or up to the
\* continuation; under Layer.executeMiddlewares the continuation is called
\* when the wrapper is the last one, and nothing else happens.
C20_SkipCallsNext ==
  \A i \in 1..Len(chain) :
    (chain[i] \in executed /\ ~headersSent) =>
      LET r == callback(ReqState, i)
          later == {j \in (i + 1)..Len(chain) : chain[j] \notin executed}
          first == CHOOSE j \in later : \A k \in later : j <= k
      IN /\ i \in r.skipped
         /\ r.executed = executed
         /\ IF driver = "next" /\ later # {}
            THEN r.timers = Append(timers, first) /\ r.contCalls = contCalls
            ELSE /\ r.timers = timers
                 /\ r.contCalls = contCalls +
                      (IF driver = "next" \/ i = Len(chain) THEN 1 ELSE 0)

\* a request went through a chain in which a wrapper skipped its handler and
\* the handler of another instance behind it ran
C20_Witness ==
  /\ driver = "next" /\ Finished /\ contCalls = 1
  /\ \E i \in skipped :
       /\ i < Len(chain) /\ chain[i + 1] # chain[i]
       /\ invoked[chain[i]] = 1 /\ invoked[chain[i + 1]] = 1
\* the request at the moment the timer of tryHandler fires for the handler at
\* the head of the timers
AtStart == [ReqState EXCEPT !.timers = Tail(@)]
Starting == phase = "running" /\ timers # <<>> /\ ~headersSent
SameLater(i) == {j \in (i + 1)..Len(chain) : chain[j] = chain[i]}

\* C24 as stated: req.executeOnce controls the guard of the middleware whose
\* handler calls it: after executeOnce() or executeOnce(true) a wrapper of a
\* later occurrence of the instance skips its handler, and after
\* executeOnce(false) it starts the handler again.
C24_ToggleControlsGuard ==
  Starting =>
    LET i == Head(timers)
        on == RunHandler(AtStart, i, <<"once">>)
        off == RunHandler(AtStart, i, <<"off">>)
    IN /\ chain[i] \in on.executed
       /\ chain[i] \notin off.executed
       /\ \A j \in SameLater(i) :
            /\ j \in callback(on, j).skipped
            /\ callback(off, j).timers = Append(off.timers, j)

\* C28 as stated: a handler that calls req.executeOnce(...) adds to or
\* removes from the executed set the identity of its own middleware and no
\* other, under both drivers and also when it calls next first.
C28_OwnIdentifier ==
  Starting =>
    LET i == Head(timers)
    IN \A script \in {<<"once">>, <<"off">>, <<"next", "once">>, <<"next", "off">>} :
         LET r == RunHandler(AtStart, i, script)
         IN (r.executed \ executed) \cup (executed \ r.executed) \subseteq {chain[i]}

\* C22 as stated: the wrapper and the executor do not translate the failure
\* of a handler into a response; every failure is left to the caller.
C22_FailureLeftToCaller ==
  \A f \in failures : f.outcome = "escaped"

\* C22: the failure of a handler, thrown at once or as a rejected promise,
\* never leaves the wrapper: tryHandler catches it and answers with
\* res.status(code).json(...), so that the response is finalized afterwards,
\* under next-chaining and under Layer.executeMiddlewares alike; the first
\* finalization of a response is the one that stands.
C22_FailureAnswered ==
  /\ \A f \in failures : f.outcome \in {"answered", "late"}
  /\ failures # {} => headersSent
  /\ Cardinality({f \in failures : f.outcome = "answered"}) <= 1

\* under Layer.executeMiddlewares a request ended after a handler of a chain
\* of two threw and the wrapper answered
C22_Witness ==
  /\ driver = "loop" /\ Len(chain) = 2 /\ Finished
  /\ \E f \in failures : f.outcome = "answered"

\* C25: for a handler that throws or returns a rejected promise, tryHandler
\* calls res.status(code).json(...) with the numeric cause of a HandleError
\* and with 400 for every other error, the response is finalized afterwards,
\* and the catch block calls no next: no wrapper is started and the
\* continuation is not called.
C25_ErrorStatus ==
  /\ \A f \in failures :
       /\ f.code = (IF f.error.class = "HandleError" /\ f.error.cause # NotANumber
                    THEN f.error.cause ELSE 400)
       /\ headersSent
  /\ (phase = "running" /\ timers # <<>>) =>
       \A op \in ThrowOps :
         LET r == RunHandler(AtStart, Head(timers), <<op>>)
         IN /\ r.headersSent
            /\ r.timers = Tail(timers)
            /\ r.contCalls = contCalls /\ r.contBy = contBy /\ r.nextBy = nextBy

\* one request in which a HandleError with the numeric cause 404 and a
\* HandleError without a numeric cause were caught
C25_Witness ==
  /\ \E f \in failures : f.error.class = "HandleError" /\ f.code = 404
  /\ \E f \in failures :
       f.error = [class |-> "HandleError", cause |-> NotANumber] /\ f.code = 400
  /\ \E f \in failures : f.outcome = "answered"

\* the event loop runs every timer that is due and every handler whose
\* awaited promise has settled
SpecExecFair ==
  SpecExec /\ WF_vars(FireTimer) /\ WF_vars(Resume) /\ WF_vars(EndRequest)

\* the handler of some position has returned without a call of next
Pending == {timers[k] : k \in 1..Len(timers)} \cup
           {suspended[k].pos : k \in 1..Len(suspended)}
ReturnedWithoutNext ==
  \E i \in 1..Len(chain) : i \notin Pending \cup skipped \cup nextBy

\* C29 as stated: a request run by Layer.executeMiddlewares, in which no
\* handler finalizes the response and every handler that runs calls its next
\* once, reaches a state in which the caller's continuation has been called
\* exactly once, for every chain, the empty one included.
C29_ContinuationEventually ==
  (driver = "loop" /\ phase = "running") ~>
    (contCalls = 1 \/ headersSent \/ ReturnedWithoutNext \/ ~disciplined)

(***************************************************************************)
(* Several requests in flight through the same chain: each request object  *)
(* carries its own executed set, timers and handlers in progress.          *)
(***************************************************************************)
\* handlers that call next, with or without req.executeOnce() before it
TwoScripts == {<<"next">>, <<"once", "next">>, <<"once", "await", "next">>}
TwoChains == UNION {[1..k -> Mids] : k \in 1..MaxTwoChain}
IdleReq ==
  [phase |-> "idle", st |-> FreshReq, invoked |-> [m \in Mids |-> 0], others |-> {}]

TwoInit ==
  /\ ChainInit(TwoChains)
  /\ reqs = [r \in 1..MaxInFlight |-> IdleReq]

\* one executed set held by the closure for all requests
ExecutedSetOfBug(rs, r) == UNION {rs[q].st.executed : q \in DOMAIN rs}
\* const executedSet = req.__executedMiddlewares__
ExecutedSetOf(rs, r) == rs[r].st.executed
\* the request r as its wrappers and handlers find it
RequestOf(rs, r) == [rs[r].st EXCEPT !.executed = ExecutedSetOf(rs, r)]
\* the identities marked on the other requests
MarkedElsewhere(rs, r) == UNION {rs[q].st.executed : q \in DOMAIN rs \ {r}}

\* the request r enters the chain
StartReq(r) ==
  /\ reqs[r].phase = "idle"
  /\ reqs' = [reqs EXCEPT
       ![r].phase = "running",
       ![r].others = MarkedElsewhere(reqs, r),
       ![r].st = IF driver = "loop" THEN executeMiddlewares(RequestOf(reqs, r), 1)
                 ELSE callback(RequestOf(reqs, r), 1)]
  /\ UNCHANGED <<treeVars, mergeVars, pathVars, execVars, compVars>>

\* a timer of tryHandler fires for the request r
FireTimerReq(r) ==
  /\ reqs[r].phase = "running"
  /\ reqs[r].st.timers # <<>>
  /\ \E script \in TwoScripts :
       LET st == RequestOf(reqs, r)
           i == Head(st.timers)
       IN reqs' = [reqs EXCEPT
            ![r].st = RunHandler([st EXCEPT !.timers = Tail(@)], i, script),
            ![r].invoked[chain[i]] = @ + 1]
  /\ UNCHANGED <<treeVars, mergeVars, pathVars, execVars, compVars>>

\* a handler of the request r goes on after an await
ResumeReq(r) ==
  /\ reqs[r].phase = "running"
  /\ reqs[r].st.suspended # <<>>
  /\ LET st == RequestOf(reqs, r)
         h == Head(st.suspended)
     IN reqs' = [reqs EXCEPT
          ![r].st = RunHandler([st EXCEPT !.suspended = Tail(@)], h.pos, h.ops)]
  /\ UNCHANGED <<treeVars, mergeVars, pathVars, execVars, compVars>>

\* nothing of the request r is pending any more
EndReq(r) ==
  /\ reqs[r].phase = "running"
  /\ reqs[r].st.timers = <<>>
  /\ reqs[r].st.suspended = <<>>
  /\ reqs' = [reqs EXCEPT ![r].phase = "done"]
  /\ UNCHANGED <<treeVars, mergeVars, pathVars, execVars, compVars>>

NextTwo ==
  \E r \in 1..MaxInFlight :
    StartReq(r) \/ FireTimerReq(r) \/ ResumeReq(r) \/ EndReq(r)

SpecTwo == TwoInit /\ [][NextTwo]_vars

\* C21: the executed set is per request: a wrapper skips its handler in a
\* request only for an instance whose handler ran in that same request, the
\* first wrapper of a request never skips whatever other requests have
\* marked, and a request that has run through the chain has run the handler
\* of every instance of the chain, also when requests are interleaved.
C21_PerRequestGuard ==
  \A r \in DOMAIN reqs :
    /\ \A i \in reqs[r].st.skipped : reqs[r].invoked[chain[i]] >= 1
    /\ 1 \notin reqs[r].st.skipped
    /\ reqs[r].phase = "done" =>
         \A i \in 1..Len(chain) : reqs[r].invoked[chain[i]] >= 1

\* a request was started when another request, still in flight, had marked
\* the first instance of the chain, and ran the handler of that instance
C21_Witness ==
  \E r \in DOMAIN reqs, q \in DOMAIN reqs :
    /\ q # r
    /\ chain[1] \in reqs[r].others
    /\ reqs[r].invoked[chain[1]] >= 1
    /\ reqs[q].phase = "running"
    /\ reqs[r].phase = "done"

(***************************************************************************)
(* Reusable components: a component refers to a Router and its chain is    *)
(* what that Router holds.                                                 *)
(***************************************************************************)
Callbacks == {"x", "y", "z"}

CompInit ==
  /\ nodes = <<>> /\ origin = <<>> /\ flat = NoFlat /\ lastOp = "init"
  /\ MergeIdle /\ PathIdle /\ ExecIdle /\ TwoIdle
  /\ routers = <<>>
  /\ comps = <<>>

\* this.router.middleware(createDynamicMiddleware(callback)) in the
\* constructor: the wrapper is appended to the Router the component was given
AddCallback(rs, rid, cb) == [rs EXCEPT ![rid] = Append(@, cb)]
\* callback.router.layers.forEach((l) => this.router.layers.push(l))
AddLayersOf(rs, rid, from) == [rs EXCEPT ![rid] = @ \o rs[from]]
\* the chain a component runs: RequestMiddleware.execute goes to its router
ChainOf(c) == routers[comps[c].router]

\* middleware(callback): a component with a Router of its own
NewComponent(cb) ==
  /\ routers' = AddCallback(Append(routers, <<>>), Len(routers) + 1, cb)
  /\ comps' = Append(comps, [router |-> Len(routers) + 1, built |-> <<cb>>])
  /\ UNCHANGED <<treeVars, mergeVars, pathVars, execVars, twoVars>>

\* c.middleware(callback): new RequestMiddleware(callback, this.router, doc)
ExtendComponent(c, cb) ==
  /\ routers' = AddCallback(routers, comps[c].router, cb)
  /\ comps' = Append(comps, [router |-> comps[c].router,
                             built |-> Append(comps[c].built, cb)])
  /\ UNCHANGED <<treeVars, mergeVars, pathVars, execVars, twoVars>>

\* c.middleware(d) for a component d
ExtendWithComponent(c, d) ==
  /\ routers' = AddLayersOf(routers, comps[c].router, comps[d].router)
  /\ comps' = Append(comps, [router |-> comps[c].router,
                             built |-> comps[c].built \o comps[d].built])
  /\ UNCHANGED <<treeVars, mergeVars, pathVars, execVars, twoVars>>

RoomForComp == Len(comps) < MaxComps
NextComp ==
  \/ \E cb \in Callbacks : RoomForComp /\ NewComponent(cb)
  \/ \E c \in DOMAIN comps, cb \in Callbacks :
       RoomForComp /\ Len(ChainOf(c)) < MaxCompChain /\ ExtendComponent(c, cb)
  \/ \E c \in DOMAIN comps, d \in DOMAIN comps :
       /\ RoomForComp
       /\ Len(ChainOf(c)) + Len(ChainOf(d)) <= MaxCompChain
       /\ ExtendWithComponent(c, d)

SpecComp == CompInit /\ [][NextComp]_vars

\* C30 as stated: c.middleware(cb) returns a new component and leaves the
\* chain of c as it was: the chain of every component is made of the
\* callbacks it was built from, so that the base holds none of the callbacks
\* added by its extensions and two extensions of one base do not hold each
\* other's.
C30_OriginalUnchanged ==
  \A c \in DOMAIN comps : ChainOf(c) = comps[c].built

====
